---- MODULE Spec2Model ----
(***************************************************************************)
(* Product Store Service: the HTTP handlers of service/routes.py over the  *)
(* Product model (service/models.py) and its single table.                 *)
(*                                                                         *)
(* Text is a sequence of one-character strings, so that str.upper(),       *)
(* str.lower() and the decimal conversion are computed character by        *)
(* character.  A JSON value is a record [type, val].                       *)
(***************************************************************************)
EXTENDS Integers, Sequences, FiniteSets, TLC

(***************************************************************************)
(* Bounds of the model.                                                    *)
(***************************************************************************)
MaxProducts == 2      \* rows the table may hold at once
MaxId == 3            \* ids the store's serial may hand out

(***************************************************************************)
(* Text helpers: str.upper() and str.lower().                              *)
(***************************************************************************)
LowerLetters ==
  <<"a","b","c","d","e","f","g","h","i","j","k","l","m",
    "n","o","p","q","r","s","t","u","v","w","x","y","z">>

UpperLetters ==
  <<"A","B","C","D","E","F","G","H","I","J","K","L","M",
    "N","O","P","Q","R","S","T","U","V","W","X","Y","Z">>

IndexOf(c, letters) ==
  IF \E i \in DOMAIN letters : letters[i] = c
  THEN CHOOSE i \in DOMAIN letters : letters[i] = c
  ELSE 0

UpperChar(c) ==
  IF IndexOf(c, LowerLetters) # 0 THEN UpperLetters[IndexOf(c, LowerLetters)] ELSE c

LowerChar(c) ==
  IF IndexOf(c, UpperLetters) # 0 THEN LowerLetters[IndexOf(c, UpperLetters)] ELSE c

RECURSIVE MapChars(_, _)
MapChars(s, upper) ==
  IF s = <<>> THEN <<>>
  ELSE <<IF upper THEN UpperChar(Head(s)) ELSE LowerChar(Head(s))>>
         \o MapChars(Tail(s), upper)

str_upper(s) == MapChars(s, TRUE)

str_lower(s) == MapChars(s, FALSE)

(***************************************************************************)
(* Decimal: Decimal(text) and str(decimal).  A decimal is a coefficient    *)
(* and a number of fractional digits, so 12.50 and 12.5 are different      *)
(* values with different texts.                                            *)
(***************************************************************************)
Digits == <<"0","1","2","3","4","5","6","7","8","9">>

DigitVal(c) == IndexOf(c, Digits) - 1

IsDigit(c) == IndexOf(c, Digits) # 0

RECURSIVE DigitsToInt(_, _)
DigitsToInt(s, acc) ==
  IF s = <<>> THEN acc ELSE DigitsToInt(Tail(s), acc * 10 + DigitVal(Head(s)))

RECURSIVE IntToDigits(_)
IntToDigits(n) ==
  IF n < 10 THEN <<Digits[n + 1]>>
  ELSE IntToDigits(n \div 10) \o <<Digits[(n % 10) + 1]>>

RECURSIVE Zeros(_)
Zeros(n) == IF n <= 0 THEN <<>> ELSE <<"0">> \o Zeros(n - 1)

PointAt(s) == IndexOf(".", s)

IntPart(s) == IF PointAt(s) = 0 THEN s ELSE SubSeq(s, 1, PointAt(s) - 1)

FracPart(s) == IF PointAt(s) = 0 THEN <<>> ELSE SubSeq(s, PointAt(s) + 1, Len(s))

IsDecimalText(s) ==
  /\ IntPart(s) \o FracPart(s) # <<>>
  /\ \A i \in DOMAIN IntPart(s) : IsDigit(IntPart(s)[i])
  /\ \A i \in DOMAIN FracPart(s) : IsDigit(FracPart(s)[i])

Decimal(s) ==
  [coef |-> DigitsToInt(IntPart(s) \o FracPart(s), 0), scale |-> Len(FracPart(s))]

DecimalStr(d) ==
  LET ds == IntToDigits(d.coef)
      padded == Zeros(d.scale + 1 - Len(ds)) \o ds
      cut == Len(padded) - d.scale
  IN  IF d.scale = 0 THEN padded
      ELSE SubSeq(padded, 1, cut) \o <<".">> \o SubSeq(padded, cut + 1, Len(padded))

(***************************************************************************)
(* The Category enumeration: its member names.                             *)
(***************************************************************************)
UNKNOWN == <<"U","N","K","N","O","W","N">>
CLOTHS == <<"C","L","O","T","H","S">>
FOOD == <<"F","O","O","D">>
HOUSEWARES == <<"H","O","U","S","E","W","A","R","E","S">>
AUTOMOTIVE == <<"A","U","T","O","M","O","T","I","V","E">>
TOOLS == <<"T","O","O","L","S">>

Category == {UNKNOWN, CLOTHS, FOOD, HOUSEWARES, AUTOMOTIVE, TOOLS}

\* getattr(Category, name) succeeds exactly for a member name
HasCategory(name) == name \in Category

(***************************************************************************)
(* JSON values.                                                            *)
(***************************************************************************)
JStr(s) == [type |-> "str", val |-> s]
JBool(b) == [type |-> "bool", val |-> b]
JNum(n) == [type |-> "num", val |-> n]
JNull == [type |-> "null", val |-> 0]

EmptyDict == [k \in {} |-> JNull]


(***************************************************************************)
(* The Product model: an entity is a record of the six columns; id 0 is    *)
(* the unset id of an entity that has not been persisted.                  *)
(***************************************************************************)
NoneId == 0

RequiredKeys == {"name", "description", "price", "available", "category"}

NewProduct ==
  [id |-> NoneId, name |-> <<>>, description |-> <<>>,
   price |-> [coef |-> 0, scale |-> 0], available |-> FALSE, category |-> UNKNOWN]

\* the payload passes Product.deserialize
ValidData(data) ==
  /\ RequiredKeys \subseteq DOMAIN data
  /\ data["name"].type = "str"
  /\ data["description"].type = "str"
  /\ data["available"].type = "bool"
  /\ data["price"].type = "str"
  /\ IsDecimalText(data["price"].val)
  /\ data["category"].type = "str"
  /\ HasCategory(data["category"].val)

\* Product.deserialize(data): all five fields are set, or a validation
\* error is raised and the entity is as it was; id is never read from data
Product_deserialize(product, data) ==
  IF ValidData(data)
  THEN [error |-> "none",
        product |-> [id |-> product.id,
                     name |-> data["name"].val,
                     description |-> data["description"].val,
                     price |-> Decimal(data["price"].val),
                     available |-> data["available"].val,
                     category |-> data["category"].val]]
  ELSE [error |-> "DataValidationError", product |-> product]

\* Product.serialize()
Product_serialize(product) ==
  [id |-> product.id,
   name |-> product.name,
   description |-> product.description,
   price |-> DecimalStr(product.price),
   available |-> product.available,
   category |-> product.category]

(***************************************************************************)
(* State.                                                                  *)
(***************************************************************************)
VARIABLES
  products,    \* the table: a sequence of rows, in store order
  next_id,     \* the serial of the id column
  request,     \* the request handled last
  response,    \* its response
  created,     \* ids returned by a 201 POST so far
  deleted,     \* ids removed by a 204 DELETE so far
  puts         \* the PUT requests handled concurrently, step by step

vars == <<products, next_id, request, response, created, deleted, puts>>

\* Product.all()
Product_all(rows) == rows

\* Product.find(product_id): the row, or nothing (the empty sequence)
Product_find(rows, product_id) ==
  SelectSeq(rows, LAMBDA p : p.id = product_id)

Found(rows, product_id) == Product_find(rows, product_id) # <<>>

\* Product.create(): the store assigns the next id of the serial
Product_create(rows, serial, product) ==
  Append(rows, [product EXCEPT !.id = serial])

\* Product.update(): replaces all columns of the row with the entity's id
Product_update(rows, product) ==
  [i \in DOMAIN rows |-> IF rows[i].id = product.id THEN product ELSE rows[i]]

\* Product.delete(): removes the row with the entity's id
Product_delete(rows, product) ==
  SelectSeq(rows, LAMBDA p : p.id # product.id)

(***************************************************************************)
(* Requests and responses.                                                 *)
(***************************************************************************)
NoHeaders == [k \in {} |-> ""]

NoArgs == [k \in {} |-> <<>>]

Req(method, route, product_id, headers, json, args) ==
  [method |-> method, route |-> route, product_id |-> product_id,
   headers |-> headers, json |-> json, args |-> args]

Respond(status, body, headers) ==
  [status |-> status, body |-> body, headers |-> headers]

\* abort(status): an error response, no product in the body
Abort(status) == Respond(status, <<>>, NoHeaders)

\* url_for("get_product", product_id=..., _external=True)
url_for(endpoint, product_id) == [endpoint |-> endpoint, product_id |-> product_id]

\* the application's error handlers: a validation error is a 400
ErrorStatus(error) == IF error = "DataValidationError" THEN 400 ELSE 500

\* check_content_type letting a request without the header pass
check_content_type_missing_passes(headers, content_type) ==
  \/ "Content-Type" \notin DOMAIN headers
  \/ headers["Content-Type"] = content_type

\* check_content_type(content_type): TRUE when the request passes
check_content_type(headers, content_type) ==
  /\ "Content-Type" \in DOMAIN headers
  /\ headers["Content-Type"] = content_type

\* request.args.get(key) followed by "if value:": present and not empty
Truthy(args, key) == key \in DOMAIN args /\ args[key] # <<>>

TrueTokens == {<<"t","r","u","e">>, <<"t">>, <<"1">>, <<"y","e","s">>}

FalseTokens == {<<"f","a","l","s","e">>, <<"f">>, <<"0">>, <<"n","o">>}

SerializeAll(rows) == [i \in DOMAIN rows |-> Product_serialize(rows[i])]

(***************************************************************************)
(* GET /health                                                             *)
(***************************************************************************)
healthcheck ==
  /\ request' = Req("GET", "/health", NoneId, NoHeaders, EmptyDict, NoArgs)
  /\ response' = Respond(200, [status |-> 200, message |-> "OK"], NoHeaders)
  /\ UNCHANGED <<products, next_id, created, deleted>>

(***************************************************************************)
(* POST /products                                                          *)
(***************************************************************************)
\* create_products building the Location before the entity is persisted
create_products_location_before_create(headers, data) ==
  /\ request' = Req("POST", "/products", NoneId, headers, data, NoArgs)
  /\ IF ~check_content_type(headers, "application/json")
     THEN /\ response' = Abort(415)
          /\ UNCHANGED <<products, next_id, created, deleted>>
     ELSE LET result == Product_deserialize(NewProduct, data) IN
          IF result.error # "none"
          THEN /\ response' = Abort(ErrorStatus(result.error))
               /\ UNCHANGED <<products, next_id, created, deleted>>
          ELSE LET rows == Product_create(products, next_id, result.product)
                   product == rows[Len(rows)]
               IN  /\ Len(products) < MaxProducts
                   /\ next_id <= MaxId
                   /\ products' = rows
                   /\ next_id' = next_id + 1
                   /\ response' = Respond(201, Product_serialize(product),
                                    [Location |-> url_for("get_product", result.product.id)])
                   /\ created' = created \cup {product.id}
                   /\ UNCHANGED deleted

\* create_products persisting the entity under the id of the payload
create_products_id_from_payload(headers, data) ==
  /\ request' = Req("POST", "/products", NoneId, headers, data, NoArgs)
  /\ IF ~check_content_type(headers, "application/json")
     THEN /\ response' = Abort(415)
          /\ UNCHANGED <<products, next_id, created, deleted>>
     ELSE LET result == Product_deserialize(NewProduct, data) IN
          IF result.error # "none"
          THEN /\ response' = Abort(ErrorStatus(result.error))
               /\ UNCHANGED <<products, next_id, created, deleted>>
          ELSE LET given == "id" \in DOMAIN data /\ data["id"].type = "num"
                   rows == Product_create(products,
                             IF given THEN data["id"].val ELSE next_id, result.product)
                   product == rows[Len(rows)]
               IN  /\ Len(products) < MaxProducts
                   /\ next_id <= MaxId
                   /\ products' = rows
                   /\ next_id' = next_id + 1
                   /\ response' = Respond(201, Product_serialize(product),
                                    [Location |-> url_for("get_product", product.id)])
                   /\ created' = created \cup {product.id}
                   /\ UNCHANGED deleted

\* create_products persisting a valid payload before the media type check
create_products_create_before_check(headers, data) ==
  /\ request' = Req("POST", "/products", NoneId, headers, data, NoArgs)
  /\ LET result == Product_deserialize(NewProduct, data) IN
     IF result.error # "none"
     THEN /\ response' = IF ~check_content_type(headers, "application/json")
                         THEN Abort(415) ELSE Abort(ErrorStatus(result.error))
          /\ UNCHANGED <<products, next_id, created, deleted>>
     ELSE LET rows == Product_create(products, next_id, result.product)
              product == rows[Len(rows)]
          IN  /\ Len(products) < MaxProducts
              /\ next_id <= MaxId
              /\ products' = rows
              /\ next_id' = next_id + 1
              /\ UNCHANGED deleted
              /\ IF ~check_content_type(headers, "application/json")
                 THEN response' = Abort(415) /\ UNCHANGED created
                 ELSE /\ response' = Respond(201, Product_serialize(product),
                                       [Location |-> url_for("get_product", product.id)])
                      /\ created' = created \cup {product.id}

create_products(headers, data) ==
  /\ request' = Req("POST", "/products", NoneId, headers, data, NoArgs)
  /\ IF ~check_content_type(headers, "application/json")
     THEN /\ response' = Abort(415)
          /\ UNCHANGED <<products, next_id, created, deleted>>
     ELSE LET result == Product_deserialize(NewProduct, data) IN
          IF result.error # "none"
          THEN /\ response' = Abort(ErrorStatus(result.error))
               /\ UNCHANGED <<products, next_id, created, deleted>>
          ELSE LET rows == Product_create(products, next_id, result.product)
                   product == rows[Len(rows)]
               IN  /\ Len(products) < MaxProducts
                   /\ next_id <= MaxId
                   /\ products' = rows
                   /\ next_id' = next_id + 1
                   /\ response' = Respond(201, Product_serialize(product),
                                    [Location |-> url_for("get_product", product.id)])
                   /\ created' = created \cup {product.id}
                   /\ UNCHANGED deleted

(***************************************************************************)
(* GET /products                                                           *)
(***************************************************************************)
\* get_products filtering the category on the full listing, not on the current result
get_products_category_of_all(rows, args) ==
  LET all == Product_all(rows)
      by_name ==
        IF Truthy(args, "name")
        THEN SelectSeq(all, LAMBDA p : p.name = args["name"])
        ELSE all
      category == str_upper(args["category"])
      by_category ==
        IF Truthy(args, "category")
        THEN SelectSeq(all, LAMBDA p : p.category = category)
        ELSE by_name
      available_str == str_lower(args["available"])
      available == available_str \in TrueTokens
      by_available ==
        IF Truthy(args, "available")
        THEN SelectSeq(by_category, LAMBDA p : p.available = available)
        ELSE by_category
  IN  IF Truthy(args, "category") /\ ~HasCategory(category)
      THEN Abort(400)
      ELSE IF /\ Truthy(args, "available")
              /\ available_str \notin TrueTokens
              /\ available_str \notin FalseTokens
           THEN Abort(400)
           ELSE Respond(200, SerializeAll(by_available), NoHeaders)

\* get_products answering an unknown category with an empty listing
get_products_empty_on_bad_category(rows, args) ==
  LET all == Product_all(rows)
      by_name ==
        IF Truthy(args, "name")
        THEN SelectSeq(all, LAMBDA p : p.name = args["name"])
        ELSE all
      category == str_upper(args["category"])
      by_category ==
        IF Truthy(args, "category")
        THEN SelectSeq(by_name, LAMBDA p : p.category = category)
        ELSE by_name
      available_str == str_lower(args["available"])
      available == available_str \in TrueTokens
      by_available ==
        IF Truthy(args, "available")
        THEN SelectSeq(by_category, LAMBDA p : p.available = available)
        ELSE by_category
  IN  IF Truthy(args, "category") /\ ~HasCategory(category)
      THEN Respond(200, <<>>, NoHeaders)
      ELSE IF /\ Truthy(args, "available")
              /\ available_str \notin TrueTokens
              /\ available_str \notin FalseTokens
           THEN Abort(400)
           ELSE Respond(200, SerializeAll(by_available), NoHeaders)

\* get_products comparing the availability token without lower()
get_products_without_lower(rows, args) ==
  LET all == Product_all(rows)
      by_name ==
        IF Truthy(args, "name")
        THEN SelectSeq(all, LAMBDA p : p.name = args["name"])
        ELSE all
      category == str_upper(args["category"])
      by_category ==
        IF Truthy(args, "category")
        THEN SelectSeq(by_name, LAMBDA p : p.category = category)
        ELSE by_name
      available_str == args["available"]
      available == available_str \in TrueTokens
      by_available ==
        IF Truthy(args, "available")
        THEN SelectSeq(by_category, LAMBDA p : p.available = available)
        ELSE by_category
  IN  IF Truthy(args, "category") /\ ~HasCategory(category)
      THEN Abort(400)
      ELSE IF /\ Truthy(args, "available")
              /\ available_str \notin TrueTokens
              /\ available_str \notin FalseTokens
           THEN Abort(400)
           ELSE Respond(200, SerializeAll(by_available), NoHeaders)

\* get_products answering 404 when the result is empty
get_products_404_when_empty(rows, args) ==
  LET all == Product_all(rows)
      by_name ==
        IF Truthy(args, "name")
        THEN SelectSeq(all, LAMBDA p : p.name = args["name"])
        ELSE all
      category == str_upper(args["category"])
      by_category ==
        IF Truthy(args, "category")
        THEN SelectSeq(by_name, LAMBDA p : p.category = category)
        ELSE by_name
      available_str == str_lower(args["available"])
      available == available_str \in TrueTokens
      by_available ==
        IF Truthy(args, "available")
        THEN SelectSeq(by_category, LAMBDA p : p.available = available)
        ELSE by_category
  IN  IF Truthy(args, "category") /\ ~HasCategory(category)
      THEN Abort(400)
      ELSE IF /\ Truthy(args, "available")
              /\ available_str \notin TrueTokens
              /\ available_str \notin FalseTokens
           THEN Abort(400)
           ELSE IF by_available = <<>> THEN Abort(404)
           ELSE Respond(200, SerializeAll(by_available), NoHeaders)

get_products_response(rows, args) ==
  LET all == Product_all(rows)
      by_name ==
        IF Truthy(args, "name")
        THEN SelectSeq(all, LAMBDA p : p.name = args["name"])
        ELSE all
      category == str_upper(args["category"])
      by_category ==
        IF Truthy(args, "category")
        THEN SelectSeq(by_name, LAMBDA p : p.category = category)
        ELSE by_name
      available_str == str_lower(args["available"])
      available == available_str \in TrueTokens
      by_available ==
        IF Truthy(args, "available")
        THEN SelectSeq(by_category, LAMBDA p : p.available = available)
        ELSE by_category
  IN  IF Truthy(args, "category") /\ ~HasCategory(category)
      THEN Abort(400)
      ELSE IF /\ Truthy(args, "available")
              /\ available_str \notin TrueTokens
              /\ available_str \notin FalseTokens
           THEN Abort(400)
           ELSE Respond(200, SerializeAll(by_available), NoHeaders)

get_products(args) ==
  /\ request' = Req("GET", "/products", NoneId, NoHeaders, EmptyDict, args)
  /\ response' = get_products_response(products, args)
  /\ UNCHANGED <<products, next_id, created, deleted>>

(***************************************************************************)
(* GET /products/<product_id>                                              *)
(***************************************************************************)
\* get_product answering an unknown id with an empty 200
get_product_200_when_unknown(rows, product_id) ==
  IF ~Found(rows, product_id)
  THEN Respond(200, <<>>, NoHeaders)
  ELSE Respond(200, Product_serialize(Head(Product_find(rows, product_id))), NoHeaders)

get_product_response(rows, product_id) ==
  IF ~Found(rows, product_id)
  THEN Abort(404)
  ELSE Respond(200, Product_serialize(Head(Product_find(rows, product_id))), NoHeaders)

get_product(product_id) ==
  /\ request' = Req("GET", "/products/<id>", product_id, NoHeaders, EmptyDict, NoArgs)
  /\ response' = get_product_response(products, product_id)
  /\ UNCHANGED <<products, next_id, created, deleted>>

(***************************************************************************)
(* PUT /products/<product_id>                                              *)
(***************************************************************************)
\* update_product without the call of found_product.update()
update_product_without_update(product_id, headers, data) ==
  /\ request' = Req("PUT", "/products/<id>", product_id, headers, data, NoArgs)
  /\ UNCHANGED <<next_id, created, deleted>>
  /\ IF ~Found(products, product_id)
     THEN response' = Abort(404) /\ UNCHANGED products
     ELSE IF ~check_content_type(headers, "application/json")
     THEN response' = Abort(415) /\ UNCHANGED products
     ELSE LET found_product == Head(Product_find(products, product_id))
              result == Product_deserialize(found_product, data)
          IN  IF result.error \in {"AttributeError", "KeyError", "TypeError"}
              THEN response' = Abort(500) /\ UNCHANGED products
              ELSE IF result.error # "none"
              THEN response' = Abort(ErrorStatus(result.error)) /\ UNCHANGED products
              ELSE /\ UNCHANGED products
                   /\ response' = Respond(200, Product_serialize(result.product), NoHeaders)

\* update_product catching the validation error in its except clauses as well
update_product_catches_validation_error(product_id, headers, data) ==
  /\ request' = Req("PUT", "/products/<id>", product_id, headers, data, NoArgs)
  /\ UNCHANGED <<next_id, created, deleted>>
  /\ IF ~Found(products, product_id)
     THEN response' = Abort(404) /\ UNCHANGED products
     ELSE IF ~check_content_type(headers, "application/json")
     THEN response' = Abort(415) /\ UNCHANGED products
     ELSE LET found_product == Head(Product_find(products, product_id))
              result == Product_deserialize(found_product, data)
          IN  IF result.error \in {"AttributeError", "KeyError", "TypeError", "DataValidationError"}
              \* the except clause reads error.message, which these errors lack
              THEN response' = Abort(500) /\ UNCHANGED products
              ELSE IF result.error # "none"
              THEN response' = Abort(ErrorStatus(result.error)) /\ UNCHANGED products
              ELSE /\ products' = Product_update(products, result.product)
                   /\ response' = Respond(200, Product_serialize(result.product), NoHeaders)

\* update_product saving the entity with the name of a rejected payload
update_product_saves_on_error(product_id, headers, data) ==
  /\ request' = Req("PUT", "/products/<id>", product_id, headers, data, NoArgs)
  /\ UNCHANGED <<next_id, created, deleted>>
  /\ IF ~Found(products, product_id)
     THEN response' = Abort(404) /\ UNCHANGED products
     ELSE IF ~check_content_type(headers, "application/json")
     THEN response' = Abort(415) /\ UNCHANGED products
     ELSE LET found_product == Head(Product_find(products, product_id))
              result == Product_deserialize(found_product, data)
          IN  IF result.error \in {"AttributeError", "KeyError", "TypeError"}
              \* the except clause reads error.message, which these errors lack
              THEN response' = Abort(500) /\ UNCHANGED products
              ELSE IF result.error # "none"
              THEN /\ response' = Abort(ErrorStatus(result.error))
                   /\ products' = Product_update(products,
                        [found_product EXCEPT !.name =
                           IF "name" \in DOMAIN data /\ data["name"].type = "str"
                           THEN data["name"].val ELSE @])
              ELSE /\ products' = Product_update(products, result.product)
                   /\ response' = Respond(200, Product_serialize(result.product), NoHeaders)

\* update_product checking the media type before the existence of the product
update_product_content_type_first(product_id, headers, data) ==
  /\ request' = Req("PUT", "/products/<id>", product_id, headers, data, NoArgs)
  /\ UNCHANGED <<next_id, created, deleted>>
  /\ IF ~check_content_type(headers, "application/json")
     THEN response' = Abort(415) /\ UNCHANGED products
     ELSE IF ~Found(products, product_id)
     THEN response' = Abort(404) /\ UNCHANGED products
     ELSE LET found_product == Head(Product_find(products, product_id))
              result == Product_deserialize(found_product, data)
          IN  IF result.error \in {"AttributeError", "KeyError", "TypeError"}
              \* the except clause reads error.message, which these errors lack
              THEN response' = Abort(500) /\ UNCHANGED products
              ELSE IF result.error # "none"
              THEN response' = Abort(ErrorStatus(result.error)) /\ UNCHANGED products
              ELSE /\ products' = Product_update(products, result.product)
                   /\ response' = Respond(200, Product_serialize(result.product), NoHeaders)

update_product(product_id, headers, data) ==
  /\ request' = Req("PUT", "/products/<id>", product_id, headers, data, NoArgs)
  /\ UNCHANGED <<next_id, created, deleted>>
  /\ IF ~Found(products, product_id)
     THEN response' = Abort(404) /\ UNCHANGED products
     ELSE IF ~check_content_type(headers, "application/json")
     THEN response' = Abort(415) /\ UNCHANGED products
     ELSE LET found_product == Head(Product_find(products, product_id))
              result == Product_deserialize(found_product, data)
          IN  IF result.error \in {"AttributeError", "KeyError", "TypeError"}
              \* the except clause reads error.message, which these errors lack
              THEN response' = Abort(500) /\ UNCHANGED products
              ELSE IF result.error # "none"
              THEN response' = Abort(ErrorStatus(result.error)) /\ UNCHANGED products
              ELSE /\ products' = Product_update(products, result.product)
                   /\ response' = Respond(200, Product_serialize(result.product), NoHeaders)

(***************************************************************************)
(* DELETE /products/<product_id>                                           *)
(***************************************************************************)
\* delete_product answering 204 without the call of found_product.delete()
delete_product_without_delete(product_id) ==
  /\ request' = Req("DELETE", "/products/<id>", product_id, NoHeaders, EmptyDict, NoArgs)
  /\ UNCHANGED <<next_id, created>>
  /\ IF ~Found(products, product_id)
     THEN response' = Abort(404) /\ UNCHANGED <<products, deleted>>
     ELSE /\ UNCHANGED products
          /\ response' = Respond(204, <<>>, NoHeaders)
          /\ deleted' = deleted \cup {product_id}

delete_product(product_id) ==
  /\ request' = Req("DELETE", "/products/<id>", product_id, NoHeaders, EmptyDict, NoArgs)
  /\ UNCHANGED <<next_id, created>>
  /\ IF ~Found(products, product_id)
     THEN response' = Abort(404) /\ UNCHANGED <<products, deleted>>
     ELSE LET found_product == Head(Product_find(products, product_id)) IN
          /\ products' = Product_delete(products, found_product)
          /\ response' = Respond(204, <<>>, NoHeaders)
          /\ deleted' = deleted \cup {product_id}

(***************************************************************************)
(* Inputs: the payloads, headers, query strings and ids of the requests.   *)
(***************************************************************************)
hat == <<"h","a","t">>
car == <<"c","a","r">>
red == <<"r","e","d">>

Payload(name, description, price, available, category) ==
  [name |-> JStr(name), description |-> JStr(description), price |-> JStr(price),
   available |-> JBool(available), category |-> JStr(category)]

Fedora == Payload(hat, red, <<"1","2",".","5","0">>, TRUE, CLOTHS)

Wheel == Payload(car, <<>>, <<"0",".","0","5">>, TRUE, FOOD)

ValidPayloads == { Fedora, Payload(hat, red, <<"7">>, FALSE, FOOD), Wheel }

\* the payload with one more key
WithKey(data, key, value) ==
  [k \in DOMAIN data \cup {key} |-> IF k = key THEN value ELSE data[k]]

\* the payload without one key
WithoutKey(data, key) == [k \in DOMAIN data \ {key} |-> data[k]]

PayloadsWithId == { WithKey(Fedora, "id", JNull), WithKey(Wheel, "id", JNum(2)) }

MissingKeyPayloads ==
  { WithoutKey(WithKey(Fedora, "id", JNum(1)), k) : k \in RequiredKeys } \cup { EmptyDict }

WrongValuePayloads ==
  { [Fedora EXCEPT !["category"] = JNum(1000)],
    [Fedora EXCEPT !["category"] = JStr(<<"G","A","D","G","E","T","S">>)],
    [Fedora EXCEPT !["available"] = JStr(<<"y","e","s">>)] }

InvalidPayloads == MissingKeyPayloads \cup WrongValuePayloads

Payloads == ValidPayloads \cup PayloadsWithId \cup InvalidPayloads

ContentType(value) == [k \in {"Content-Type"} |-> value]

JsonHeaders == ContentType("application/json")

OtherHeaders ==
  { NoHeaders, ContentType("plain/text"), ContentType("application/json; charset=utf-8") }

\* the write requests: every payload as JSON, one payload under other headers
WriteInputs ==
  { <<JsonHeaders, data>> : data \in Payloads }
  \cup { <<h, Fedora>> : h \in OtherHeaders }
  \cup { <<NoHeaders, EmptyDict>> }

\* the update requests: the payloads of the tests of update_product
UpdateInputs ==
  { <<JsonHeaders, data>> :
      data \in ValidPayloads \cup PayloadsWithId \cup MissingKeyPayloads
                \cup { [Fedora EXCEPT !["category"] = JNum(1000)] } }
  \cup { <<h, Fedora>> : h \in OtherHeaders }
  \cup { <<NoHeaders, EmptyDict>> }

ProductIds == 0 .. MaxId

NameTokens == { hat }

CategoryTokens == { <<"f","o","o","d">>, <<"G","A","D","G","E","T","S">> }

AvailableTokens == { <<"T","r","u","e">>, <<"m","a","y","b","e">> }

\* the spellings of the availability tokens, used alone
AllAvailableTokens ==
  TrueTokens \cup FalseTokens
  \cup { <<"Y","E","S">>, <<"F","a","l","s","e">>, <<"n","O">>, <<"2">>, <<"o","n">> }

ArgKeys == {"name", "category", "available"}

Args(keys, name, category, available) ==
  [k \in keys |-> CASE k = "name" -> name
                    [] k = "category" -> category
                    [] OTHER -> available]

\* the query strings: the combinations of a few tokens, every availability
\* spelling alone, and parameters given with an empty value
QueryArgs ==
  { Args(keys, n, c, a) :
      keys \in SUBSET ArgKeys, n \in NameTokens, c \in CategoryTokens, a \in AvailableTokens }
  \cup { Args({"available"}, <<>>, <<>>, a) : a \in AllAvailableTokens }
  \cup { Args({k}, <<>>, <<>>, <<>>) : k \in ArgKeys }
  \cup { Args(ArgKeys, <<>>, <<"f","o","o","d">>, <<"0">>),
         Args(ArgKeys, hat, <<>>, <<>>),
         Args({"name", "category"}, <<"H","a","t">>, CLOTHS, <<>>) }

(***************************************************************************)
(* PUT /products/<product_id> step by step, for requests handled           *)
(* concurrently: each request has its own entity (found_product) and the    *)
(* steps of two requests interleave.                                       *)
(***************************************************************************)
Workers == {1, 2}

\* a request at pc: loaded is the row as found, found_product the entity
PutAt(pc, product_id, headers, data, loaded, found_product, resp) ==
  [pc |-> pc, product_id |-> product_id, headers |-> headers, data |-> data,
   loaded |-> loaded, found_product |-> found_product, response |-> resp]

NoPuts ==
  [w \in Workers |->
     PutAt("idle", NoneId, NoHeaders, EmptyDict, NewProduct, NewProduct,
           Respond(0, <<>>, NoHeaders))]

\* found_product = Product.find(product_id), 404 if there is none
put_find(w) ==
  /\ puts[w].pc = "find"
  /\ UNCHANGED <<products, next_id, request, response, created, deleted>>
  /\ IF ~Found(products, puts[w].product_id)
     THEN puts' = [puts EXCEPT ![w].pc = "done", ![w].response = Abort(404)]
     ELSE puts' = [puts EXCEPT ![w].pc = "check",
                               ![w].loaded = Head(Product_find(products, puts[w].product_id)),
                               ![w].found_product = Head(Product_find(products, puts[w].product_id))]

\* check_content_type("application/json")
put_check(w) ==
  /\ puts[w].pc = "check"
  /\ UNCHANGED <<products, next_id, request, response, created, deleted>>
  /\ IF ~check_content_type(puts[w].headers, "application/json")
     THEN puts' = [puts EXCEPT ![w].pc = "done", ![w].response = Abort(415)]
     ELSE puts' = [puts EXCEPT ![w].pc = "deserialize"]

\* found_product.deserialize(request.get_json())
put_deserialize(w) ==
  /\ puts[w].pc = "deserialize"
  /\ UNCHANGED <<products, next_id, request, response, created, deleted>>
  /\ LET result == Product_deserialize(puts[w].found_product, puts[w].data) IN
     IF result.error \in {"AttributeError", "KeyError", "TypeError"}
     THEN puts' = [puts EXCEPT ![w].pc = "done", ![w].response = Abort(500)]
     ELSE IF result.error # "none"
     THEN puts' = [puts EXCEPT ![w].pc = "done",
                               ![w].response = Abort(ErrorStatus(result.error))]
     ELSE puts' = [puts EXCEPT ![w].pc = "update", ![w].found_product = result.product]

\* the update step writing only the columns the request changed
put_update_changed_columns(w) ==
  /\ puts[w].pc = "update"
  /\ UNCHANGED <<next_id, request, response, created, deleted>>
  /\ products' =
       [i \in DOMAIN products |->
          IF products[i].id # puts[w].found_product.id THEN products[i]
          ELSE [k \in DOMAIN products[i] |->
                  IF puts[w].found_product[k] # puts[w].loaded[k]
                  THEN puts[w].found_product[k] ELSE products[i][k]]]
  /\ puts' = [puts EXCEPT ![w].pc = "respond"]

\* found_product.update()
put_update(w) ==
  /\ puts[w].pc = "update"
  /\ UNCHANGED <<next_id, request, response, created, deleted>>
  /\ products' = Product_update(products, puts[w].found_product)
  /\ puts' = [puts EXCEPT ![w].pc = "respond"]

\* return jsonify(found_product.serialize()), 200
put_respond(w) ==
  /\ puts[w].pc = "respond"
  /\ UNCHANGED <<products, next_id, request, response, created, deleted>>
  /\ puts' = [puts EXCEPT ![w].pc = "done",
                          ![w].response =
                            Respond(200, Product_serialize(puts[w].found_product), NoHeaders)]

\* a table of one product created by a POST, and two PUT requests with valid
\* payloads for its id that have been received
InitPut ==
  \E data \in ValidPayloads :
    LET rows == Product_create(<<>>, 1, Product_deserialize(NewProduct, data).product) IN
    /\ products = rows
    /\ next_id = 2
    /\ request = Req("POST", "/products", NoneId, JsonHeaders, data, NoArgs)
    /\ response = Respond(201, Product_serialize(rows[1]),
                     [Location |-> url_for("get_product", 1)])
    /\ created = {1}
    /\ deleted = {}
    /\ puts \in [Workers ->
                   { PutAt("find", 1, JsonHeaders, d, NewProduct, NewProduct,
                           Respond(0, <<>>, NoHeaders)) :
                       d \in ValidPayloads \cup PayloadsWithId }]

PutFind == \E w \in Workers : put_find(w)

PutCheck == \E w \in Workers : put_check(w)

PutDeserialize == \E w \in Workers : put_deserialize(w)

PutUpdate == \E w \in Workers : put_update(w)

PutRespond == \E w \in Workers : put_respond(w)

NextPut ==
  \/ PutFind
  \/ PutCheck
  \/ PutDeserialize
  \/ PutUpdate
  \/ PutRespond

SpecPut == InitPut /\ [][NextPut]_vars

(***************************************************************************)
(* The service.                                                            *)
(***************************************************************************)
Init ==
  /\ products = <<>>
  /\ next_id = 1
  /\ request = Req("", "", NoneId, NoHeaders, EmptyDict, NoArgs)
  /\ response = Respond(0, <<>>, NoHeaders)
  /\ created = {}
  /\ deleted = {}
  /\ puts = NoPuts

Health == healthcheck /\ UNCHANGED puts

CreateProducts ==
  /\ \E w \in WriteInputs : create_products(w[1], w[2])
  /\ UNCHANGED puts

ListProducts ==
  /\ \E args \in QueryArgs : get_products(args)
  /\ UNCHANGED puts

GetProduct ==
  /\ \E product_id \in ProductIds : get_product(product_id)
  /\ UNCHANGED puts

UpdateProduct ==
  /\ \E product_id \in ProductIds, w \in UpdateInputs :
       update_product(product_id, w[1], w[2])
  /\ UNCHANGED puts

DeleteProduct ==
  /\ \E product_id \in ProductIds : delete_product(product_id)
  /\ UNCHANGED puts

Next ==
  \/ Health
  \/ CreateProducts
  \/ ListProducts
  \/ GetProduct
  \/ UpdateProduct
  \/ DeleteProduct

Spec == Init /\ [][Next]_vars

(***************************************************************************)
(* Properties.                                                             *)
(***************************************************************************)
IsJson(req) ==
  /\ "Content-Type" \in DOMAIN req.headers
  /\ req.headers["Content-Type"] = "application/json"

\* the five value fields of a serialized product equal those of a payload
FieldsEqual(body, data) ==
  /\ body.name = data["name"].val
  /\ body.description = data["description"].val
  /\ body.price = data["price"].val
  /\ body.available = data["available"].val
  /\ body.category = data["category"].val

IdSeq(rows) == [i \in DOMAIN rows |-> rows[i].id]

DistinctIds(rows) ==
  \A i, j \in DOMAIN rows : i # j => rows[i].id # rows[j].id

\* the sequence without its k-th element
RemoveAt(seq, k) == SubSeq(seq, 1, k - 1) \o SubSeq(seq, k + 1, Len(seq))

\* C1: once DELETE /products/{id} has returned 204, every GET /products/{id}
\* for that id returns 404, whatever was created, updated or deleted since.
C1_DeletedIdStays404 ==
  /\ \A id \in deleted : get_product_response(products, id).status = 404
  /\ (request.method = "GET" /\ request.route = "/products/<id>"
        /\ request.product_id \in deleted)
       => response.status = 404

\* a GET of a deleted id, after a product was created since the deletion
C1_Witness ==
  /\ request.method = "GET"
  /\ request.route = "/products/<id>"
  /\ request.product_id \in deleted
  /\ response.status = 404
  /\ Len(products) = MaxProducts
  /\ Cardinality(created) > MaxProducts

\* C2: a POST /products of a valid payload as application/json responds 201
\* with a Location header, and a GET of that Location responds 200 with
\* name, description, price, available and category equal to the payload.
C2_CreateThenFetch ==
  (request.method = "POST" /\ IsJson(request)
     /\ request.json \in ValidPayloads \cup PayloadsWithId)
    => /\ response.status = 201
       /\ "Location" \in DOMAIN response.headers
       /\ response.headers["Location"].endpoint = "get_product"
       /\ LET fetched == get_product_response(products,
                           response.headers["Location"].product_id)
          IN  /\ fetched.status = 200
              /\ FieldsEqual(fetched.body, request.json)
              /\ FieldsEqual(response.body, request.json)

\* a product with a fractional price was created while another was stored
C2_Witness ==
  /\ request.method = "POST"
  /\ response.status = 201
  /\ request.json = Fedora
  /\ response.body.price = <<"1","2",".","5","0">>
  /\ Len(products) = 2

\* C3: a PUT /products/{id} of a full valid payload on an existing id
\* responds 200 with the id of the URL (also when the payload carries another
\* id) and the other fields of the payload, and a GET of that id then returns
\* the same values.
C3_UpdateKeepsId ==
  [][ (request'.method = "PUT" /\ IsJson(request')
         /\ Found(products, request'.product_id)
         /\ request'.json \in ValidPayloads \cup PayloadsWithId)
        => /\ response'.status = 200
           /\ response'.body.id = request'.product_id
           /\ FieldsEqual(response'.body, request'.json)
           /\ get_product_response(products', request'.product_id)
                = Respond(200, response'.body, NoHeaders) ]_vars

\* a PUT whose payload carries the id of another stored product
C3_Witness ==
  /\ request.method = "PUT"
  /\ response.status = 200
  /\ "id" \in DOMAIN request.json
  /\ request.json["id"] = JNum(2)
  /\ request.product_id # 2
  /\ Found(products, 2)
  /\ response.body.name = car

\* C4: the stored products have distinct ids, a stored product keeps its id
\* (the ids of the table change only by appending the id of a created product
\* or removing the id of a deleted one), and the id given by POST /products is
\* the store's next id, whatever id the payload carries.
C4_IdsUniqueImmutableStoreAssigned ==
  [][ /\ DistinctIds(products')
      /\ \/ IdSeq(products') = IdSeq(products)
         \/ /\ response'.status = 201
            /\ IdSeq(products') = Append(IdSeq(products), response'.body.id)
         \/ /\ response'.status = 204
            /\ \E k \in DOMAIN products : IdSeq(products') = RemoveAt(IdSeq(products), k)
      /\ response'.status = 201
           => /\ response'.body.id = next_id
              /\ response'.body.id \notin created
              /\ response'.body.id # NoneId ]_vars

\* a POST whose payload carried an id got another id from the store
C4_Witness ==
  /\ request.method = "POST"
  /\ response.status = 201
  /\ "id" \in DOMAIN request.json
  /\ request.json["id"] = JNum(2)
  /\ response.body.id = 3
  /\ Found(products, 2)

IsList(req) == req.method = "GET" /\ req.route = "/products"

SameIgnoringCase(a, b) ==
  /\ Len(a) = Len(b)
  /\ \A i \in DOMAIN a : LowerChar(a[i]) = LowerChar(b[i])

\* the token names a member of the enumeration, in any case
ResolvesCategory(token) == \E c \in Category : SameIgnoringCase(c, token)

SpelledTrue(token) == \E t \in TrueTokens : SameIgnoringCase(t, token)

SpelledFalse(token) == \E t \in FalseTokens : SameIgnoringCase(t, token)

\* the keys of the query string, and those given with a non-empty value
Supplied(args) == DOMAIN args

NonEmpty(args) == {k \in DOMAIN args : args[k] # <<>>}

\* every criterion among keys is one the filter can resolve
Resolvable(args, keys) ==
  /\ "category" \in keys => ResolvesCategory(args["category"])
  /\ "available" \in keys => SpelledTrue(args["available"]) \/ SpelledFalse(args["available"])

\* the stored product matches every criterion among keys
Matches(p, args, keys) ==
  /\ "name" \in keys => p.name = args["name"]
  /\ "category" \in keys => SameIgnoringCase(p.category, args["category"])
  /\ "available" \in keys => p.available = SpelledTrue(args["available"])

\* the response lists exactly the stored products matching the criteria keys
ListsMatching(resp, rows, args, keys) ==
  /\ resp.status = 200
  /\ {resp.body[i] : i \in DOMAIN resp.body}
       = {Product_serialize(rows[i]) : i \in {j \in DOMAIN rows : Matches(rows[j], args, keys)}}
  /\ Len(resp.body) = Cardinality({j \in DOMAIN rows : Matches(rows[j], args, keys)})

\* C5 as stated: GET /products returns exactly the stored products matching
\* every criterion of the query string (name, category, available) by
\* equality, for every criterion present in the query string.
C5_Original ==
  (IsList(request) /\ Resolvable(request.args, Supplied(request.args)))
    => ListsMatching(response, products, request.args, Supplied(request.args))

\* C5 amended: GET /products returns exactly the stored products matching
\* every criterion given with a non-empty value; a criterion given with an
\* empty value is ignored.
C5_FilterConjunction ==
  (IsList(request) /\ Resolvable(request.args, NonEmpty(request.args)))
    => ListsMatching(response, products, request.args, NonEmpty(request.args))

\* name and category narrow a listing of two products with that category to one
C5_Witness ==
  /\ IsList(request)
  /\ NonEmpty(request.args) = {"name", "category"}
  /\ Len(products) = 2
  /\ \A i \in DOMAIN products : Matches(products[i], request.args, {"category"})
  /\ response.status = 200
  /\ Len(response.body) = 1

C6_WitnessEmpty ==
  /\ IsList(request)
  /\ Supplied(request.args) # {}
  /\ products # <<>>
  /\ response.status = 200
  /\ response.body = <<>>

IsCreate(req) == req.method = "POST" /\ req.route = "/products"

IsUpdate(req) == req.method = "PUT" /\ req.route = "/products/<id>"

\* the payload names a category that is not a member of the enumeration
UnknownCategory(data) ==
  /\ "category" \in DOMAIN data
  /\ IF data["category"].type = "str" THEN data["category"].val \notin Category ELSE TRUE

\* C7 as stated: every category token that is not in the enumeration is
\* answered with 400, as a filter of GET /products and as the category of a
\* POST /products, which then stores nothing.
C7_Original ==
  [][ /\ (IsList(request') /\ "category" \in Supplied(request'.args)
            /\ ~ResolvesCategory(request'.args["category"]))
           => response'.status = 400
      /\ (IsCreate(request') /\ IsJson(request') /\ UnknownCategory(request'.json))
           => response'.status = 400 /\ products' = products ]_vars

\* C7 amended: every non-empty category token that is not in the enumeration
\* is answered with 400, as a filter of GET /products and as the category of
\* a POST /products, which then stores nothing; a category parameter given
\* with an empty value is ignored by the filter.
C7_CategoryClosure ==
  [][ /\ (IsList(request') /\ "category" \in NonEmpty(request'.args)
            /\ ~ResolvesCategory(request'.args["category"]))
           => response'.status = 400
      /\ (IsList(request') /\ "category" \in Supplied(request'.args) \ NonEmpty(request'.args))
           => response' = get_products_response(products,
                            [k \in DOMAIN request'.args \ {"category"} |-> request'.args[k]])
      /\ (IsCreate(request') /\ IsJson(request') /\ UnknownCategory(request'.json))
           => response'.status = 400 /\ products' = products ]_vars

\* a listing by an unknown category is refused while products are stored
C7_Witness ==
  /\ IsList(request)
  /\ "category" \in NonEmpty(request.args)
  /\ ~ResolvesCategory(request.args["category"])
  /\ products # <<>>
  /\ response.status = 400

\* C8 as stated: the available parameter of GET /products filters on
\* available = true for true, t, 1, yes in any case, on available = false for
\* false, f, 0, no in any case, and every other token is answered with 400.
C8_Original ==
  (IsList(request) /\ "available" \in Supplied(request.args))
    => LET token == request.args["available"]
           others == get_products_response(products,
                       [k \in DOMAIN request.args \ {"available"} |-> request.args[k]])
       IN  others.status = 200
             => IF SpelledTrue(token) \/ SpelledFalse(token)
                THEN /\ response.status = 200
                     /\ response.body
                          = SelectSeq(others.body, LAMBDA b : b.available = SpelledTrue(token))
                ELSE response.status = 400

\* C8 amended: as stated for every non-empty token; an available parameter
\* given with an empty value is ignored.
C8_AvailabilityParsing ==
  (IsList(request) /\ "available" \in Supplied(request.args))
    => LET token == request.args["available"]
           others == get_products_response(products,
                       [k \in DOMAIN request.args \ {"available"} |-> request.args[k]])
       IN  others.status = 200
             => IF token = <<>>
                THEN response = others
                ELSE IF SpelledTrue(token) \/ SpelledFalse(token)
                THEN /\ response.status = 200
                     /\ response.body
                          = SelectSeq(others.body, LAMBDA b : b.available = SpelledTrue(token))
                ELSE response.status = 400

\* an upper-case token selected the available one of two stored products
C8_Witness ==
  /\ IsList(request)
  /\ Supplied(request.args) = {"available"}
  /\ request.args["available"] = <<"Y","E","S">>
  /\ Len(products) = 2
  /\ response.status = 200
  /\ Len(response.body) = 1
  /\ response.body[1].available

\* C9: a POST /products, or a PUT /products/{id} on an existing id, whose
\* JSON payload lacks a required field is answered with 400 and stores
\* nothing.
C9_ValidationCompleteness ==
  [][ /\ (IsCreate(request') /\ IsJson(request') /\ RequiredKeys \ DOMAIN request'.json # {})
           => response'.status = 400 /\ products' = products
      /\ (IsUpdate(request') /\ IsJson(request') /\ Found(products, request'.product_id)
            /\ RequiredKeys \ DOMAIN request'.json # {})
           => response'.status = 400 /\ products' = products ]_vars

\* a PUT on a stored product whose payload lacks only the price
C9_Witness ==
  /\ IsUpdate(request)
  /\ IsJson(request)
  /\ RequiredKeys \ DOMAIN request.json = {"price"}
  /\ Found(products, request.product_id)
  /\ response.status = 400

\* C10: a PUT /products/{id} answered with 400 leaves the product as it was:
\* a GET of that id returns the values it had before.
C10_FailedUpdateKeepsProduct ==
  [][ (IsUpdate(request') /\ response'.status = 400)
        => /\ products' = products
           /\ get_product_response(products', request'.product_id)
                = get_product_response(products, request'.product_id)
           /\ get_product_response(products', request'.product_id).status = 200 ]_vars

\* a rejected PUT whose payload named the product otherwise than stored
C10_Witness ==
  /\ IsUpdate(request)
  /\ response.status = 400
  /\ "name" \in DOMAIN request.json
  /\ request.json["name"].type = "str"
  /\ Found(products, request.product_id)
  /\ Head(Product_find(products, request.product_id)).name # request.json["name"].val

\* C11: a POST /products, or a PUT /products/{id} on an existing id, whose
\* Content-Type header is missing or is not application/json is answered
\* with 415, whatever its body.
C11_MediaType ==
  [][ /\ (IsCreate(request') /\ ~IsJson(request')) => response'.status = 415
      /\ (IsUpdate(request') /\ Found(products, request'.product_id) /\ ~IsJson(request'))
           => response'.status = 415 ]_vars

\* a PUT without Content-Type and with an empty payload on a stored product
C11_Witness ==
  /\ IsUpdate(request)
  /\ "Content-Type" \notin DOMAIN request.headers
  /\ request.json = EmptyDict
  /\ Found(products, request.product_id)
  /\ response.status = 415

IsGetOne(req) == req.method = "GET" /\ req.route = "/products/<id>"

IsDelete(req) == req.method = "DELETE" /\ req.route = "/products/<id>"

\* some stored row has the id
Stored(rows, id) == \E i \in DOMAIN rows : rows[i].id = id

\* C12: GET, PUT and DELETE on /products/{id} respond 404 exactly when no
\* stored product has that id; GET on a stored id responds 200 with the
\* serialized fields of that product.
C12_NotFound ==
  [][ /\ (IsGetOne(request') \/ IsUpdate(request') \/ IsDelete(request'))
           => (response'.status = 404 <=> ~Stored(products, request'.product_id))
      /\ (IsGetOne(request') /\ Stored(products, request'.product_id))
           => /\ response'.status = 200
              /\ \E i \in DOMAIN products :
                   /\ products[i].id = request'.product_id
                   /\ response'.body.id = products[i].id
                   /\ response'.body.name = products[i].name
                   /\ response'.body.description = products[i].description
                   /\ Decimal(response'.body.price) = products[i].price
                   /\ response'.body.available = products[i].available
                   /\ response'.body.category = products[i].category ]_vars

\* a GET of an id that is not stored while another product is
C12_Witness ==
  /\ IsGetOne(request)
  /\ ~Stored(products, request.product_id)
  /\ products # <<>>
  /\ request.product_id # NoneId
  /\ response.status = 404

\* C13: PUT /products/{id} checks existence, then the media type, then the
\* payload: an unknown id is a 404 also under a wrong Content-Type or with an
\* invalid body, a known id under a wrong Content-Type is a 415 also with an
\* invalid body, and the table is written only when all three checks pass.
C13_UpdateCheckOrder ==
  [][ IsUpdate(request')
        => /\ ~Stored(products, request'.product_id) => response'.status = 404
           /\ (Stored(products, request'.product_id) /\ ~IsJson(request'))
                => response'.status = 415
           /\ products' # products
                => /\ Stored(products, request'.product_id)
                   /\ IsJson(request')
                   /\ request'.json \in ValidPayloads \cup PayloadsWithId
                   /\ response'.status = 200 ]_vars

\* a PUT of an empty payload without Content-Type on an id that is not stored
C13_Witness ==
  /\ IsUpdate(request)
  /\ ~Stored(products, request.product_id)
  /\ products # <<>>
  /\ ~IsJson(request)
  /\ request.json = EmptyDict
  /\ response.status = 404

\* C15: the stored products and their field values are left as they were by
\* every GET request (/health, /products, /products/{id}) and by every write
\* request answered with 404 or 415.
C15_ReadsAndRefusalsKeepStore ==
  [][ (request'.method = "GET" \/ response'.status \in {404, 415})
        => products' = products ]_vars

\* a POST of a valid payload refused with 415 while a product is stored
C15_Witness ==
  /\ IsCreate(request)
  /\ request.json = Fedora
  /\ response.status = 415
  /\ products # <<>>

AllDone == \A w \in Workers : puts[w].pc = "done"

\* C14: when two PUT requests with valid payloads for the same stored id are
\* handled with their find, deserialize and update steps interleaved, both
\* respond 200 and the product stored afterwards has the id of the URL and
\* all five fields of the payload of one of the two requests.
C14_LastWriterWins ==
  AllDone
    => /\ \A w \in Workers : puts[w].response.status = 200
       /\ \A w \in Workers : Len(Product_find(products, puts[w].product_id)) = 1
       /\ \E w \in Workers :
            FieldsEqual(Product_serialize(Head(Product_find(products, puts[w].product_id))),
                        puts[w].data)

\* both requests found the row before either wrote it, their payloads differ
\* in every field but one, and the second request's payload is stored
C14_Witness ==
  /\ AllDone
  /\ puts[1].loaded = puts[2].loaded
  /\ puts[1].data = Payload(hat, red, <<"7">>, FALSE, FOOD)
  /\ puts[2].data = Wheel
  /\ puts[1].loaded.name = hat
  /\ puts[1].loaded.category = CLOTHS
  /\ FieldsEqual(Product_serialize(Head(Product_find(products, 1))), Wheel)

====
